---------------------------- MODULE Spec2Model ----------------------------
(***************************************************************************)
(* Model of online_modeling.py: the MemoryBuffer class (validation set +   *)
(* rolling experience buffer), the background thread of ThreadingModeling  *)
(* (__update_model) and the foreground simulation loop of __main__.        *)
(*                                                                         *)
(* An experience is identified by the number of the add_to_buffer call     *)
(* that stored it (1, 2, 3, ...); 0 stands for the np.zeros content of a   *)
(* slot that was never written.  The input row and the output row of a     *)
(* slot are kept apart, since the code writes them in two statements.      *)
(*                                                                         *)
(* Two specifications share the variables:                                 *)
(*   Spec        the MemoryBuffer API used from one thread: whole calls    *)
(*               of add_to_buffer and generate_batch, in any order;        *)
(*   SpecThreads the program: the foreground loop and the background       *)
(*               thread interleaved statement by statement (FairThreads    *)
(*               adds the fairness of the interpreter's thread switching). *)
(***************************************************************************)
EXTENDS Integers, Sequences, FiniteSets

\* ------------------------------------------------------------- bounds
MaxBufferSize == 3
MaxValDataSize == 2
MaxBatchSize == 2
MaxAdds == 9
MaxEpisodes == 2
MaxSteps == 3
MaxUpdates == 2

\* ------------------------------------------- program constants (ticks)
\* time.time() is read in ticks.  update_model_dt=0.5 (line 433) and
\* sim_dt = .02 (line 439) are kept as whole ticks in their order,
\* sim_dt < update_model_dt; nothing below depends on their ratio.
UpdateModelDt == 2
SimDt == 1

VARIABLES
    \* MemoryBuffer.__init__ arguments and the loop limits of __main__
    buffer_size, val_data_size, batch_size, n_episodes, n_steps,
    \* MemoryBuffer fields
    buffer, buffer_counter, buffer_filled,
    val_data, val_data_counter, val_data_filled,
    \* ThreadingModeling fields
    keep_computing_model, track_model, hist_train,
    \* foreground (__main__): position, loop indices, clock since start_time,
    \* the copy of hist_train taken after close()
    fg_pc, i, j, fg_elapsed, saved_hist,
    \* background (__update_model): position, input_data/output_data slices,
    \* what fit read through them, clock since start_time
    bg_pc, input_data, seen_in, seen_out, bg_elapsed,
    \* what the last generate_batch call did: "none", "batch", "None", "ValueError"
    gb_result,
    \* history: completed add_to_buffer calls; clock distance between the
    \* starts of the last two iterations of __update_model (capped at
    \* UpdateModelDt; -2 before the first iteration and -1 during it)
    n_added, last_gap

config == <<buffer_size, val_data_size, batch_size, n_episodes, n_steps>>
memory == <<buffer, buffer_counter, buffer_filled,
            val_data, val_data_counter, val_data_filled>>
modeling == <<keep_computing_model, track_model, hist_train>>
fg == <<fg_pc, i, j, fg_elapsed, saved_hist>>
bg == <<bg_pc, input_data, seen_in, seen_out, bg_elapsed, last_gap>>
vars == <<config, memory, modeling, fg, bg, gb_result, n_added>>

None == [initial_idx |-> -1, final_idx |-> -1]

Min(a, b) == IF a < b THEN a ELSE b

\* The experience an add_to_buffer call stores: np.hstack([current_state,
\* control]) and next_state - current_state of call number e.
Experience(e) == [data_in |-> e, data_out |-> e]

Zeros == [data_in |-> 0, data_out |-> 0]

\* ------------------------------------------------- MemoryBuffer.__init__
InitMemory ==
    /\ buffer_size \in 1..MaxBufferSize
    /\ val_data_size \in 1..MaxValDataSize
    /\ buffer = [s \in 0..(buffer_size - 1) |-> Zeros]
    /\ buffer_counter = 0
    /\ buffer_filled = FALSE
    /\ val_data = [s \in 0..(val_data_size - 1) |-> Zeros]
    /\ val_data_counter = 0
    /\ val_data_filled = FALSE

\* ------------------------------------------- ThreadingModeling.__init__
InitModeling ==
    /\ batch_size \in 1..MaxBatchSize
    /\ track_model = 0
    /\ hist_train = 0
    /\ keep_computing_model = TRUE
    /\ bg_pc = "while"
    /\ input_data = None
    /\ seen_in = <<>>
    /\ seen_out = <<>>
    /\ bg_elapsed = 0
    /\ last_gap = -2
    /\ gb_result = "none"

\* ------------------------------------------------------------ __main__
InitMain ==
    /\ n_episodes \in 1..MaxEpisodes
    /\ n_steps = MaxSteps
    /\ fg_pc = "for_i"
    /\ i = 0
    /\ j = 1
    /\ fg_elapsed = 0
    /\ saved_hist = -1
    /\ n_added = 0

Init == InitMemory /\ InitModeling /\ InitMain

\* ------------------------------------------- MemoryBuffer.add_to_buffer
\* Mutant: the flag is raised one experience early (== size - 1).
AddValidationEarly(e) ==
    /\ ~val_data_filled
    /\ val_data' = [val_data EXCEPT ![val_data_counter] = Experience(e)]
    /\ val_data_counter' = val_data_counter + 1
    /\ val_data_filled' = (val_data_counter + 1 >= val_data_size - 1)
    /\ UNCHANGED <<buffer, buffer_counter, buffer_filled>>

\* Lines 103-120: the validation branch.
AddValidation(e) ==
    /\ ~val_data_filled
    /\ val_data' = [val_data EXCEPT ![val_data_counter] = Experience(e)]
    /\ val_data_counter' = val_data_counter + 1
    /\ val_data_filled' = (val_data_counter + 1 = val_data_size)
    /\ UNCHANGED <<buffer, buffer_counter, buffer_filled>>

\* Mutant: a full buffer keeps writing its last slot.
ResetCounterLast ==
    IF buffer_counter >= buffer_size THEN buffer_size - 1 ELSE buffer_counter

\* Lines 124-127: the counter is reset before the flag is raised.
ResetCounter == IF buffer_counter >= buffer_size THEN 0 ELSE buffer_counter

\* Mutant: the flag is raised by the call that writes the last slot.
ResetFlagAtLastSlot == buffer_filled \/ buffer_counter + 1 >= buffer_size

\* Line 127, in the if of line 124.
ResetFlag == buffer_filled \/ buffer_counter >= buffer_size

\* Mutant: the wrap-around of the buffer restarts the validation set.
AddMemoryRefill(e) ==
    /\ val_data_filled
    /\ buffer' = [buffer EXCEPT ![ResetCounter] = Experience(e)]
    /\ buffer_counter' = ResetCounter + 1
    /\ buffer_filled' = ResetFlag
    /\ val_data_counter' = IF buffer_counter >= buffer_size
                           THEN 0 ELSE val_data_counter
    /\ val_data_filled' = ~(buffer_counter >= buffer_size)
    /\ UNCHANGED val_data

\* Lines 122-139: the memory buffer branch, as one call.
AddMemory(e) ==
    /\ val_data_filled
    /\ buffer' = [buffer EXCEPT ![ResetCounter] = Experience(e)]
    /\ buffer_counter' = ResetCounter + 1
    /\ buffer_filled' = ResetFlag
    /\ UNCHANGED <<val_data, val_data_counter, val_data_filled>>

AddToBuffer ==
    /\ n_added < MaxAdds
    /\ AddValidation(n_added + 1) \/ AddMemory(n_added + 1)
    /\ n_added' = n_added + 1
    /\ UNCHANGED <<config, modeling, fg, bg, gb_result>>

\* ------------------------------------------ MemoryBuffer.generate_batch
\* np.random.randint(low, high): any integer of [low, high); empty when
\* low >= high, and then numpy raises ValueError.
Randint(low, high) == low..(high - 1)

\* Mutant: the start index is drawn without leaving room for the batch.
BatchesNoRoom(high) ==
    {[initial_idx |-> x, final_idx |-> x + batch_size] :
        x \in Randint(0, high + batch_size)}

\* Lines 147-150 and 155-158: the batches a draw with upper bound high gives.
Batches(high) ==
    {[initial_idx |-> x, final_idx |-> x + batch_size] : x \in Randint(0, high)}

\* Lines 164-165: the slots of the slice [initial_idx:final_idx] of buffer.
Slice(b) == b.initial_idx..(Min(b.final_idx, buffer_size) - 1)

\* Lines 147-150 and 155-158: one draw of the start index with upper bound
\* high; the slices of lines 164-165 are views on buffer, kept as the pair
\* of indices.
Draw(high) ==
    IF Randint(0, high) = {}
    THEN gb_result' = "ValueError" /\ input_data' = None
    ELSE gb_result' = "batch" /\ input_data' \in Batches(high)

\* Line 153: the test of the elif, on the value of buffer_counter it reads.
HasEnough(counter) == batch_size < counter

\* Lines 159-161.
ReturnNone == gb_result' = "None" /\ input_data' = None

\* Lines 141-167, the call as a whole (one thread: both reads of
\* buffer_counter give the same value).
GenerateBatch ==
    /\ IF buffer_filled
       THEN Draw(buffer_size - batch_size)
       ELSE IF HasEnough(buffer_counter)
            THEN Draw(buffer_counter - batch_size)
            ELSE ReturnNone
    /\ UNCHANGED <<config, memory, modeling, fg, n_added>>
    /\ UNCHANGED <<bg_pc, seen_in, seen_out, bg_elapsed, last_gap>>

Next == AddToBuffer \/ GenerateBatch

Spec == Init /\ [][Next]_vars

\* ============================================ claims on MemoryBuffer
\* The experiences add_to_buffer has stored so far.
Added == 1..n_added

InValidation(e) ==
    \E s \in DOMAIN val_data :
        val_data[s].data_in = e \/ val_data[s].data_out = e

InMemory(e) ==
    \E s \in DOMAIN buffer : buffer[s].data_in = e \/ buffer[s].data_out = e

\* C1: fill order.  The first val_data_size experiences are stored in the
\* validation set (experience e in slot e - 1) and not in the memory buffer,
\* every later experience is not in the validation set and, when it is the
\* newest, is in the memory buffer; no experience is in both; and while
\* val_data_filled is false the memory buffer has received nothing.
FillOrder ==
    /\ \A e \in Added :
          IF e <= val_data_size
          THEN val_data[e - 1] = Experience(e) /\ ~InMemory(e)
          ELSE ~InValidation(e) /\ (e = n_added => InMemory(e))
    /\ \A e \in Added : ~(InValidation(e) /\ InMemory(e))
    /\ ~val_data_filled =>
          /\ \A s \in DOMAIN buffer : buffer[s] = Zeros
          /\ buffer_counter = 0 /\ ~buffer_filled
          /\ n_added < val_data_size

FillOrderWitness ==
    /\ val_data_size = MaxValDataSize
    /\ n_added > val_data_size + buffer_size
    /\ buffer_filled

\* The slots of the batch the last generate_batch call returned.
BatchSlots == IF gb_result = "batch" THEN Slice(input_data) ELSE {}

\* C2: the validation set stays fixed.  Once val_data_filled is true no step
\* changes val_data, val_data_counter or val_data_filled, and no slot of a
\* batch that generate_batch returned holds a validation entry.
ValidationFixed ==
    /\ [][val_data_filled =>
            UNCHANGED <<val_data, val_data_counter, val_data_filled>>]_vars
    /\ [](\A s \in BatchSlots : \A v \in DOMAIN val_data :
            /\ buffer[s].data_in # val_data[v].data_in
            /\ buffer[s].data_out # val_data[v].data_out)

ValidationFixedWitness ==
    /\ val_data_filled
    /\ buffer_filled
    /\ gb_result = "batch"
    /\ n_added > val_data_size + buffer_size + 1

\* k: the experiences added to the memory buffer so far.
MemoryAdds == IF val_data_filled THEN n_added - val_data_size ELSE 0

LatestIn(s, k) ==
    LET ms == {m \in 1..k : (m - 1) % buffer_size = s}
    IN  IF ms = {} THEN Zeros
        ELSE Experience(val_data_size +
                        CHOOSE m \in ms : \A m2 \in ms : m2 <= m)

Stored == {buffer[s].data_in : s \in DOMAIN buffer} \ {0}

Oldest(s) == \A t \in DOMAIN buffer : buffer[s].data_in <= buffer[t].data_in

\* C3: rolling buffer.  With k experiences added to the memory buffer, slot
\* s holds the latest of them whose number m has (m - 1) mod buffer_size = s
\* (nothing when there is none), so the buffer holds exactly the latest
\* min(k, buffer_size) and the k-th sits in slot (k - 1) mod buffer_size; an
\* add to a full buffer overwrites the oldest experience and changes no
\* other slot.
RollingBuffer ==
    /\ [](\A s \in DOMAIN buffer : buffer[s] = LatestIn(s, MemoryAdds))
    /\ [](Stored = {val_data_size + m :
                      m \in (MemoryAdds - Min(MemoryAdds, buffer_size) + 1)
                            ..MemoryAdds})
    /\ [](MemoryAdds >= 1 =>
            buffer[(MemoryAdds - 1) % buffer_size]
                = Experience(val_data_size + MemoryAdds))
    /\ [][MemoryAdds >= buffer_size /\ n_added' # n_added =>
            \E s \in DOMAIN buffer :
                /\ Oldest(s)
                /\ buffer'[s] = Experience(n_added')
                /\ \A t \in DOMAIN buffer \ {s} : buffer'[t] = buffer[t]]_vars

RollingBufferWitness ==
    /\ buffer_size = MaxBufferSize
    /\ MemoryAdds = 2 * buffer_size + 1

\* C4: batch sampling bounds, one thread.  A batch that generate_batch
\* returned is the run of exactly batch_size slots from initial_idx, inside
\* the buffer, each slot written by add_to_buffer; while buffer_filled is
\* false all its indices are below buffer_counter.
BatchBounds ==
    gb_result = "batch" =>
        /\ 0 <= input_data.initial_idx
        /\ input_data.final_idx = input_data.initial_idx + batch_size
        /\ input_data.final_idx <= buffer_size
        /\ Cardinality(Slice(input_data)) = batch_size
        /\ \A s \in Slice(input_data) :
              /\ s \in DOMAIN buffer
              /\ buffer[s].data_in > 0 /\ buffer[s].data_out > 0
              /\ ~buffer_filled => s < buffer_counter

BatchBoundsWitness ==
    /\ gb_result = "batch"
    /\ batch_size >= 2
    /\ ~buffer_filled

\* The largest start index from which batch_size slots still fit.
LastStart ==
    IF buffer_filled THEN buffer_size - batch_size
    ELSE buffer_counter - batch_size

\* The slots add_to_buffer has written.
Written == {s \in DOMAIN buffer : buffer[s] # Zeros}

\* C11: a batch may start anywhere.  Every start index from 0 through
\* LastStart can be drawn by generate_batch, and when a batch fits every
\* written slot, the last one included, is in a batch it can return.
AnyStartDrawable ==
    /\ \A x \in 0..LastStart :
          ENABLED (GenerateBatch /\ input_data'.initial_idx = x)
    /\ LastStart >= 0 =>
          \A s \in Written :
              ENABLED (GenerateBatch /\ gb_result' = "batch"
                          /\ s \in Slice(input_data'))

\* C12: generate_batch never fails.  No call raises: the range of the
\* draw is never empty, and with batch_size >= buffer_size every call
\* returns (None, None).
NeverFails ==
    /\ [](gb_result # "ValueError")
    /\ [][GenerateBatch /\ batch_size >= buffer_size =>
            gb_result' = "None"]_vars

\* C13: buffer_filled becomes true in the call that resets buffer_counter
\* for the first time, the (buffer_size + 1)-th add to the memory buffer,
\* and is false after the buffer_size-th; buffer_filled and
\* val_data_filled never return to false.
FilledAtFirstReset ==
    /\ [](buffer_filled <=> MemoryAdds >= buffer_size + 1)
    /\ [][~buffer_filled /\ buffer_filled' =>
            /\ buffer_counter = buffer_size
            /\ buffer_counter' = 1
            /\ MemoryAdds' = buffer_size + 1]_vars
    /\ [][buffer_counter' < buffer_counter => buffer_filled']_vars
    /\ [][buffer_filled => buffer_filled']_vars
    /\ [][val_data_filled => val_data_filled']_vars

FilledAtFirstResetWitness ==
    /\ buffer_size = MaxBufferSize
    /\ buffer_filled
    /\ MemoryAdds = buffer_size + 1

\* ===================================================== the two threads
\* ---------------------------------------------- __main__, lines 450-501
\* Line 450: the episode loop; after the last episode, line 495.
FgForI ==
    /\ fg_pc = "for_i"
    /\ IF i < n_episodes
       THEN j' = 1 /\ fg_pc' = "for_j"
       ELSE j' = j /\ fg_pc' = "close"
    /\ UNCHANGED <<config, memory, modeling, bg, gb_result, n_added>>
    /\ UNCHANGED <<i, fg_elapsed, saved_hist>>

\* Lines 460-475: the step loop; start_time = time.time(), the control and
\* the plant's step.
FgForJ ==
    /\ fg_pc = "for_j"
    /\ IF j < n_steps
       THEN i' = i /\ fg_elapsed' = 0 /\ fg_pc' = "add"
       ELSE i' = i + 1 /\ fg_elapsed' = fg_elapsed /\ fg_pc' = "for_i"
    /\ UNCHANGED <<config, memory, modeling, bg, gb_result, n_added>>
    /\ UNCHANGED <<j, saved_hist>>

\* Mutant: add_to_buffer waits while the background thread is fitting, as
\* it would under a lock shared with __update_model.
FgAddLocked ==
    /\ fg_pc = "add"
    /\ bg_pc \notin {"fit_in", "fit_out"}
    /\ IF ~val_data_filled
       THEN /\ AddValidation(n_added + 1)
            /\ n_added' = n_added + 1
            /\ fg_pc' = "predict"
       ELSE /\ buffer_counter' = ResetCounter
            /\ fg_pc' = IF buffer_counter >= buffer_size
                        THEN "buf_flag" ELSE "buf_in"
            /\ UNCHANGED <<buffer, buffer_filled, n_added>>
            /\ UNCHANGED <<val_data, val_data_counter, val_data_filled>>
    /\ UNCHANGED <<config, modeling, bg, gb_result>>
    /\ UNCHANGED <<i, j, fg_elapsed, saved_hist>>

\* Line 478 into lines 103-126.  The validation branch is one step: the
\* background thread reads val_data only after it has read val_data_filled
\* as true, which line 120 writes last.  In the other branch this step is
\* the test of line 124 and the write of line 126.
FgAdd ==
    /\ fg_pc = "add"
    /\ IF ~val_data_filled
       THEN /\ AddValidation(n_added + 1)
            /\ n_added' = n_added + 1
            /\ fg_pc' = "predict"
       ELSE /\ buffer_counter' = ResetCounter
            /\ fg_pc' = IF buffer_counter >= buffer_size
                        THEN "buf_flag" ELSE "buf_in"
            /\ UNCHANGED <<buffer, buffer_filled, n_added>>
            /\ UNCHANGED <<val_data, val_data_counter, val_data_filled>>
    /\ UNCHANGED <<config, modeling, bg, gb_result>>
    /\ UNCHANGED <<i, j, fg_elapsed, saved_hist>>

\* Line 127.
FgSetFilled ==
    /\ fg_pc = "buf_flag"
    /\ buffer_filled' = TRUE
    /\ fg_pc' = "buf_in"
    /\ UNCHANGED <<config, modeling, bg, gb_result, n_added>>
    /\ UNCHANGED <<buffer, buffer_counter>>
    /\ UNCHANGED <<val_data, val_data_counter, val_data_filled>>
    /\ UNCHANGED <<i, j, fg_elapsed, saved_hist>>

\* Lines 130-133: idx = buffer_counter, the input row of the slot.
FgWriteIn ==
    /\ fg_pc = "buf_in"
    /\ buffer' = [buffer EXCEPT ![buffer_counter].data_in = n_added + 1]
    /\ fg_pc' = "buf_out"
    /\ UNCHANGED <<config, modeling, bg, gb_result, n_added>>
    /\ UNCHANGED <<buffer_counter, buffer_filled>>
    /\ UNCHANGED <<val_data, val_data_counter, val_data_filled>>
    /\ UNCHANGED <<i, j, fg_elapsed, saved_hist>>

\* Line 136: the output row of the slot.
FgWriteOut ==
    /\ fg_pc = "buf_out"
    /\ buffer' = [buffer EXCEPT ![buffer_counter].data_out = n_added + 1]
    /\ fg_pc' = "buf_inc"
    /\ UNCHANGED <<config, modeling, bg, gb_result, n_added>>
    /\ UNCHANGED <<buffer_counter, buffer_filled>>
    /\ UNCHANGED <<val_data, val_data_counter, val_data_filled>>
    /\ UNCHANGED <<i, j, fg_elapsed, saved_hist>>

\* Line 139.
FgIncCounter ==
    /\ fg_pc = "buf_inc"
    /\ buffer_counter' = buffer_counter + 1
    /\ n_added' = n_added + 1
    /\ fg_pc' = "predict"
    /\ UNCHANGED <<config, modeling, bg, gb_result>>
    /\ UNCHANGED <<buffer, buffer_filled>>
    /\ UNCHANGED <<val_data, val_data_counter, val_data_filled>>
    /\ UNCHANGED <<i, j, fg_elapsed, saved_hist>>

\* Lines 481-490: the prediction with the current model, the log, and the
\* test of the time the step took.
FgPredict ==
    /\ fg_pc = "predict"
    /\ IF fg_elapsed < SimDt
       THEN j' = j /\ fg_pc' = "sleep"
       ELSE j' = j + 1 /\ fg_pc' = "for_j"
    /\ UNCHANGED <<config, memory, modeling, bg, gb_result, n_added>>
    /\ UNCHANGED <<i, fg_elapsed, saved_hist>>

\* Line 492: time.sleep(sim_dt - time_compute) ends sim_dt after start_time.
FgWake ==
    /\ fg_pc = "sleep"
    /\ fg_elapsed >= SimDt
    /\ j' = j + 1
    /\ fg_pc' = "for_j"
    /\ UNCHANGED <<config, memory, modeling, bg, gb_result, n_added>>
    /\ UNCHANGED <<i, fg_elapsed, saved_hist>>

\* Lines 495-496 and 360-363: ThreadingModeling.close.
Close ==
    /\ fg_pc = "close"
    /\ keep_computing_model' = FALSE
    /\ fg_pc' = "save"
    /\ UNCHANGED <<config, memory, bg, gb_result, n_added>>
    /\ UNCHANGED <<track_model, hist_train>>
    /\ UNCHANGED <<i, j, fg_elapsed, saved_hist>>

\* Lines 499-501: the final model and np.array(modeling.hist_train) saved.
FgSave ==
    /\ fg_pc = "save"
    /\ saved_hist' = hist_train
    /\ fg_pc' = "done"
    /\ UNCHANGED <<config, memory, modeling, bg, gb_result, n_added>>
    /\ UNCHANGED <<i, j, fg_elapsed>>

FgNext ==
    \/ FgForI \/ FgForJ \/ FgAdd \/ FgSetFilled \/ FgWriteIn \/ FgWriteOut
    \/ FgIncCounter \/ FgPredict \/ FgWake \/ Close \/ FgSave

\* -------------------------- ThreadingModeling.__update_model, 232-273
\* Mutant: while True, the flag is never tested.
BgWhileTrue ==
    /\ bg_pc = "while"
    /\ hist_train < MaxUpdates
    /\ last_gap' = IF last_gap = -2 THEN -1 ELSE bg_elapsed
    /\ bg_elapsed' = 0
    /\ bg_pc' = "gb_if"
    /\ UNCHANGED <<config, memory, modeling, fg, gb_result, n_added>>
    /\ UNCHANGED <<input_data, seen_in, seen_out>>

\* Lines 235-236: the test of the flag and start_time = time.time().
BgWhile ==
    /\ bg_pc = "while"
    /\ IF keep_computing_model
       THEN /\ hist_train < MaxUpdates
            /\ last_gap' = IF last_gap = -2 THEN -1 ELSE bg_elapsed
            /\ bg_elapsed' = 0
            /\ bg_pc' = "gb_if"
       ELSE /\ bg_pc' = "exited"
            /\ UNCHANGED <<last_gap, bg_elapsed>>
    /\ UNCHANGED <<config, memory, modeling, fg, gb_result, n_added>>
    /\ UNCHANGED <<input_data, seen_in, seen_out>>

\* Where generate_batch leaves the thread: a ValueError ends it.
AfterBatch == IF gb_result' = "ValueError" THEN "dead" ELSE "check_val"

\* Lines 239 and 145-150: the read of buffer_filled.
BgGbIf ==
    /\ bg_pc = "gb_if"
    /\ IF buffer_filled
       THEN Draw(buffer_size - batch_size) /\ bg_pc' = AfterBatch
       ELSE bg_pc' = "gb_elif" /\ UNCHANGED <<gb_result, input_data>>
    /\ UNCHANGED <<config, memory, modeling, fg, n_added>>
    /\ UNCHANGED <<seen_in, seen_out, bg_elapsed, last_gap>>

\* Lines 153 and 159-161: the first read of buffer_counter.
BgGbElif ==
    /\ bg_pc = "gb_elif"
    /\ IF HasEnough(buffer_counter)
       THEN bg_pc' = "gb_high" /\ UNCHANGED <<gb_result, input_data>>
       ELSE ReturnNone /\ bg_pc' = "check_val"
    /\ UNCHANGED <<config, memory, modeling, fg, n_added>>
    /\ UNCHANGED <<seen_in, seen_out, bg_elapsed, last_gap>>

\* Lines 155-158: the second read of buffer_counter.
BgGbHigh ==
    /\ bg_pc = "gb_high"
    /\ Draw(buffer_counter - batch_size)
    /\ bg_pc' = AfterBatch
    /\ UNCHANGED <<config, memory, modeling, fg, n_added>>
    /\ UNCHANGED <<seen_in, seen_out, bg_elapsed, last_gap>>

\* Mutant: the test of line 244 is missing.
AfterCheckAnyBatch == IF val_data_filled THEN "fit_in" ELSE "while"

\* Lines 243-244: where the iteration goes after generate_batch.
AfterCheck ==
    IF val_data_filled
    THEN IF input_data # None THEN "fit_in" ELSE "delay"
    ELSE "while"

BgCheckVal ==
    /\ bg_pc = "check_val"
    /\ bg_pc' = AfterCheck
    /\ UNCHANGED <<config, memory, modeling, fg, gb_result, n_added>>
    /\ UNCHANGED <<input_data, seen_in, seen_out, bg_elapsed, last_gap>>

\* What a read through a slice of buffer gives now.
ReadIn(b) == [k \in 1..Cardinality(Slice(b)) |->
                 buffer[b.initial_idx + k - 1].data_in]

ReadOut(b) == [k \in 1..Cardinality(Slice(b)) |->
                  buffer[b.initial_idx + k - 1].data_out]

\* Lines 254-257: fit reads input_data, then output_data.
BgFitIn ==
    /\ bg_pc = "fit_in"
    /\ seen_in' = ReadIn(input_data)
    /\ bg_pc' = "fit_out"
    /\ UNCHANGED <<config, memory, modeling, fg, gb_result, n_added>>
    /\ UNCHANGED <<input_data, seen_out, bg_elapsed, last_gap>>

BgFitOut ==
    /\ bg_pc = "fit_out"
    /\ seen_out' = ReadOut(input_data)
    /\ bg_pc' = "track"
    /\ UNCHANGED <<config, memory, modeling, fg, gb_result, n_added>>
    /\ UNCHANGED <<input_data, seen_in, bg_elapsed, last_gap>>

\* Line 263.  track_model and hist_train are kept as their lengths; the
\* pair (epi_n + 1, step_n) of lines 465-466 is the content left out.
BgTrack ==
    /\ bg_pc = "track"
    /\ track_model' = track_model + 1
    /\ bg_pc' = "hist"
    /\ UNCHANGED <<config, memory, fg, gb_result, n_added>>
    /\ UNCHANGED <<keep_computing_model, hist_train>>
    /\ UNCHANGED <<input_data, seen_in, seen_out, bg_elapsed, last_gap>>

\* Lines 266-267.
BgHist ==
    /\ bg_pc = "hist"
    /\ hist_train' = hist_train + 1
    /\ bg_pc' = "delay"
    /\ UNCHANGED <<config, memory, fg, gb_result, n_added>>
    /\ UNCHANGED <<keep_computing_model, track_model>>
    /\ UNCHANGED <<input_data, seen_in, seen_out, bg_elapsed, last_gap>>

\* Lines 270-271, inside the if of line 243.
BgDelay ==
    /\ bg_pc = "delay"
    /\ bg_pc' = IF bg_elapsed < UpdateModelDt THEN "sleep" ELSE "while"
    /\ UNCHANGED <<config, memory, modeling, fg, gb_result, n_added>>
    /\ UNCHANGED <<input_data, seen_in, seen_out, bg_elapsed, last_gap>>

\* Line 273: the sleep ends update_model_dt after start_time.
BgWake ==
    /\ bg_pc = "sleep"
    /\ bg_elapsed >= UpdateModelDt
    /\ bg_pc' = "while"
    /\ UNCHANGED <<config, memory, modeling, fg, gb_result, n_added>>
    /\ UNCHANGED <<input_data, seen_in, seen_out, bg_elapsed, last_gap>>

BgNext ==
    \/ BgWhile \/ BgGbIf \/ BgGbElif \/ BgGbHigh \/ BgCheckVal
    \/ BgFitIn \/ BgFitOut \/ BgTrack \/ BgHist \/ BgDelay \/ BgWake

\* time.time() advances; each thread's clock since its start_time is kept
\* up to the delay it is compared with.
Tick ==
    /\ fg_elapsed' = Min(fg_elapsed + 1, SimDt)
    /\ bg_elapsed' = Min(bg_elapsed + 1, UpdateModelDt)
    /\ UNCHANGED <<config, memory, modeling, gb_result, n_added>>
    /\ UNCHANGED <<fg_pc, i, j, saved_hist>>
    /\ UNCHANGED <<bg_pc, input_data, seen_in, seen_out, last_gap>>

NextThreads == FgNext \/ BgNext \/ Tick

SpecThreads == Init /\ [][NextThreads]_vars

\* The interpreter switches threads, and the clock advances.
FairThreads ==
    SpecThreads /\ WF_vars(FgNext) /\ WF_vars(BgNext) /\ WF_vars(Tick)

\* ======================================== claims on the two threads
\* The background thread is inside a model update: fit, or the appends to
\* track_model and hist_train.
Updating == bg_pc \in {"fit_in", "fit_out", "track", "hist"}

Updated == Updating \/ track_model > 0 \/ hist_train > 0

\* C5: the model is updated only when the validation set is ready.  No
\* update runs while val_data_filled is false or on a (None, None) batch,
\* and none has started before more than val_data_size + batch_size
\* experiences were added.
UpdateOnlyWhenReady ==
    /\ Updating => val_data_filled /\ gb_result = "batch" /\ input_data # None
    /\ Updated => n_added > val_data_size + batch_size

UpdateOnlyWhenReadyWitness == hist_train > 0 /\ Updating

\* C6: update cadence.  The starts of two consecutive iterations of
\* __update_model are at least update_model_dt apart.
UpdateCadence == last_gap >= 0 => last_gap >= UpdateModelDt

\* C7: close() stops modeling.  After close() no step appends to
\* track_model or hist_train or is inside fit, and the history saved after
\* close() holds every update.
CloseStopsModeling ==
    /\ [][~keep_computing_model =>
            /\ track_model' = track_model
            /\ hist_train' = hist_train
            /\ bg_pc' \notin {"fit_in", "fit_out"}]_vars
    /\ [](fg_pc = "done" => saved_hist = hist_train)

\* The background thread runs no more: the loop was left, or a ValueError
\* of generate_batch ended the thread.
Ended == bg_pc \in {"exited", "dead"}

\* C8: stop flag.  keep_computing_model is true until close() is called;
\* once it is false, under fair scheduling the background thread ends (the
\* loop is left, or the thread was already ended by an exception), and no
\* iteration starts while the flag is false.
StopFlag ==
    /\ [](fg_pc \notin {"save", "done"} => keep_computing_model)
    /\ [](fg_pc \in {"save", "done"} => ~keep_computing_model)
    /\ (~keep_computing_model ~> Ended)
    /\ [][~keep_computing_model => ~(bg_pc = "while" /\ bg_pc' = "gb_if")]_vars

StopFlagWitness == ~keep_computing_model /\ bg_pc = "exited" /\ hist_train > 0

\* C9: no backpressure.  In every state of the background thread the
\* foreground's next statement is enabled unless it is sleeping out sim_dt;
\* the foreground reaches the end, and has then added exactly
\* n_episodes * (n_steps - 1) experiences.
NoBackpressure ==
    /\ [](fg_pc \notin {"sleep", "done"} => ENABLED FgNext)
    /\ <>(fg_pc = "done")
    /\ [](fg_pc = "done" => n_added = n_episodes * (n_steps - 1))

NoBackpressureWitness ==
    /\ fg_pc = "done"
    /\ n_episodes = MaxEpisodes
    /\ n_added = n_episodes * (n_steps - 1)
    /\ bg_pc = "fit_out"

\* C10: generate_batch returns a batch whenever enough experiences are
\* stored.  While buffer_filled is false a call with buffer_counter >=
\* batch_size returns a batch, and a call returns (None, None) only with
\* buffer_counter < batch_size.
BatchWhenEnough ==
    [][GenerateBatch /\ ~buffer_filled =>
         /\ buffer_counter >= batch_size => gb_result' = "batch"
         /\ gb_result' = "None" => buffer_counter < batch_size]_vars

\* C14: race on buffer_counter.  With batch_size < buffer_size the upper
\* bound of the draw is positive at the second read of buffer_counter under
\* every interleaving, so generate_batch never raises and the background
\* thread is never ended by it.
DrawBoundPositive ==
    batch_size < buffer_size =>
        /\ bg_pc = "gb_high" => buffer_counter - batch_size > 0
        /\ gb_result # "ValueError"
        /\ bg_pc # "dead"

\* C15: no torn experience.  From generate_batch returning the slices until
\* fit on them ends no slot of the batch changes, and every pair fit has
\* read is the input and the output of one add_to_buffer call.
NoTornExperience ==
    /\ [][(bg_pc \in {"check_val", "fit_in", "fit_out"}
             /\ gb_result = "batch") =>
            \A s \in Slice(input_data) : buffer'[s] = buffer[s]]_vars
    /\ [](bg_pc \in {"track", "hist"} => seen_in = seen_out)

=============================================================================
